---- MODULE Spec2Model ----
(***************************************************************************)
(* RemoteManualAgentJobManager (backend/job_managers/remote_manual_agent): *)
(* a pool of RPyC agent connections, round-robin dispatch of jobs, fault   *)
(* recovery on disconnect, periodic reconnection and task-dir sync.        *)
(*                                                                         *)
(* Threads of the program: one submitting thread per job (_execute_job),   *)
(* one RPyC serving thread ("pump") per connection, which runs the         *)
(* completion callbacks and on_disconnect, the two threading.Timer         *)
(* threads, and the thread that calls close().  There is no lock in the    *)
(* class, so every statement that reads or writes shared state is a step   *)
(* of its own.                                                             *)
(***************************************************************************)
EXTENDS Integers, Sequences, FiniteSets, TLC

\* ------------------------------------------------------------------ bounds
NumAgents == 2      \* configured endpoints (len(agents))
MaxJobs == 3        \* job ids
MaxSubmit == 2      \* jobs handed to _execute_job by concurrent threads
MaxFaults == 1      \* transport failures the environment may inject
MaxCycles == 1      \* firings of the connect timer after construction
MaxPaths == 2       \* files the task directory may hold
MaxHash == 2        \* distinct contents of one file
MaxChanges == 1     \* edits of the local task directory

Slots == 0 .. (NumAgents - 1)
Jobs == 1 .. MaxJobs
Submitted == 1 .. MaxSubmit
None == "None"          \* in self._agents: no connection handle
NoSlot == 0 - 1         \* agent_id is None
Conn == "conn"

VARIABLES
    agents,       \* self._agents: slot -> None | connection handle
    link,         \* transport + serving thread of the slot's connection
    running,      \* self._running_on_agent: slot -> list of job ids
    next_agent,   \* self._next_agent, the round-robin cursor
    closed,       \* self._closed
    is_testing,   \* self._is_testing
    jpc,          \* position of the thread running _execute_job(jobid)
    jslot,        \* its local agent_id
    jcur,         \* its read of self._next_agent (line 161, before the store)
    call,         \* the AsyncResult of its new_job call
    cb,           \* a completion callback is registered on that AsyncResult
    reports,      \* per job: the results passed to AbstractJobManager._job_ended
    attempts,     \* per job: calls of _execute_job made for it (line 182 recurses)
    sd,           \* per thread: its activation of _agent_shutdown
    faults,       \* transport failures injected so far
    ctimer,       \* the connect timer / the thread in _try_agent_connection
    centry,       \* its loop variable entry
    cphase,       \* its position inside the loop body
    cycles,       \* timer firings so far
    clpc,         \* the thread in close()
    clentry,      \* its loop variable i
    task_dir,     \* the files under get_tasks_directory(): path -> hash, 0 = absent
    last_content, \* self._last_content_in_task_directory
    remote_td,    \* per agent: its own task directory, or SyncDisabled
    alias,        \* per slot: update_image_aliases has completed on its connection
    hreq,         \* per slot: get_task_directory_hashes calls awaiting their reply
    upd,          \* per slot: update_task_directory calls awaiting their reply
    fullsync,     \* per slot: progress of the sync started when it connected
    tmpfiles,     \* archive temporary files that are open
    stimer,       \* the sync timer / the thread in _try_synchronize_task_dir
    sentry,       \* its position in the loop over self._agents
    sfresh,       \* its local current_content_in_task_directory
    sseen,        \* slots it found connected, and slots it started a sync for
    changes,      \* edits of the task directory so far
    to_update,    \* _synchronize_task_dir_p2: the list to_update, paths as strings
    tpos,         \* position of its loop of line 137
    tar           \* the names added to the archive

coreVars == <<agents, link, running, next_agent, closed, is_testing>>
jobVars == <<jpc, jslot, jcur, call, cb, reports, attempts>>
connVars == <<ctimer, centry, cphase, cycles>>
closeVars == <<clpc, clentry>>
syncVars == <<task_dir, last_content, remote_td, alias, hreq, upd, fullsync, tmpfiles>>
stimerVars == <<stimer, sentry, sfresh, sseen, changes>>
archVars == <<to_update, tpos, tar>>
vars == <<coreVars, jobVars, sd, faults, connVars, closeVars, syncVars, stimerVars,
          archVars>>

\* ------------------------------------------------------------ list helpers
Range(s) == {s[k] : k \in DOMAIN s}

\* list.index(x): position of the first occurrence
IndexOf(s, x) == CHOOSE k \in DOMAIN s : s[k] = x /\ \A m \in 1 .. (k - 1) : s[m] # x

\* list.remove(x) for x in s: drops the first occurrence
Remove(s, x) ==
    [k \in 1 .. (Len(s) - 1) |-> IF k < IndexOf(s, x) THEN s[k] ELSE s[k + 1]]

Count(s, x) == Cardinality({k \in DOMAIN s : s[k] = x})

\* ------------------------------------------------------------ _select_agent
\* available_agents = [i for i, j in enumerate(self._agents) if j is not None]
AvailableAgents(ag) ==
    LET F[n \in 0 .. NumAgents] ==
            IF n = 0 THEN <<>>
            ELSE IF ag[n - 1] # None THEN Append(F[n - 1], n - 1) ELSE F[n - 1]
    IN  F[NumAgents]

\* the cursor is ignored: always the first available agent
ChosenAgentFirst(ag, cursor) ==
    LET av == AvailableAgents(ag)
    IN  IF Len(av) = 0 THEN NoSlot ELSE av[1]

\* the index is taken in the whole table, connected or not
ChosenAgentUnfiltered(ag, cursor) == cursor % NumAgents

\* lines 157-160: None, or available_agents[self._next_agent % len(available_agents)]
ChosenAgent(ag, cursor) ==
    LET av == AvailableAgents(ag)
    IN  IF Len(av) = 0 THEN NoSlot ELSE av[(cursor % Len(av)) + 1]

\* -------------------------------------------------------------- results
\* the dictionaries passed to _job_ended (lines 168-172, 224, 193) and the
\* agent's own result (line 195)
NoAgentResult == [result |-> "crash",
                  text |-> "There are not any agent available for grading"]
ShutdownResult == [result |-> "crash", text |-> "Remote agent shutdown"]
ErrorResult == [result |-> "crash"]
OkResult == [result |-> "success"]

\* AbstractJobManager._job_ended(self, jobid, result): the upstream callback
Report(rep, jobid, result) == [rep EXCEPT ![jobid] = Append(@, result)]

\* ------------------------------------------------------------- threads
JobT(j) == <<"job", j>>
PumpT(i) == <<"pump", i>>
CloseT == <<"close", 0>>
Threads == {JobT(j) : j \in Jobs} \cup {PumpT(i) : i \in Slots} \cup {CloseT}

\* no activation of _agent_shutdown
NoSd == [ph |-> "off", slot |-> 0, k |-> 0, cur |-> 0, live |-> TRUE,
         old |-> <<>>, start |-> <<>>, disc |-> FALSE]

\* entry of _agent_shutdown(agent_id): map() takes an iterator over the list
\* that self._running_on_agent[agent_id] names at that moment (line 224);
\* start and disc remember the list and whether the slot had no handle then
StartSd(a, run, ag) == [ph |-> "next", slot |-> a, k |-> 0, cur |-> 0, live |-> TRUE,
                        old |-> <<>>, start |-> run[a], disc |-> (ag[a] = None)]

PumpIdle(i) == sd[PumpT(i)].ph = "off"

\* ---------------------------------------------------------------- _job_ended
\* line 186 raises ValueError unless jobid is in the slot's current list
JobEndedRaises(run, jobid, a) == a # NoSlot /\ jobid \notin Range(run[a])

\* lines 185-186: self._running_on_agent[agent_id].remove(jobid)
\* the job is reported without being taken out of the list
JobEndedRunningKeep(run, jobid, a) == run

JobEndedRunning(run, jobid, a) ==
    IF a = NoSlot THEN run ELSE [run EXCEPT ![a] = Remove(@, jobid)]

\* ------------------------------------------------------------ _execute_job
\* the lists of all the slots are one list ([[]] * len(agents))
RunningAppendAliased(run, a, jobid) == [i \in Slots |-> Append(run[i], jobid)]

\* line 178: self._running_on_agent[agent_id].append(jobid)
RunningAppend(run, a, jobid) == [run EXCEPT ![a] = Append(@, jobid)]

\* lines 175-177 raise: no handle in the slot, or the send meets a dead transport
IssueRaises(ag, ln, a) == ag[a] = None \/ ln[a] \in {"none", "broken"}

\* lines 166-173 and the load of line 161: _select_agent up to the store of the
\* cursor; with no agent available the job is ended with a crash result
SelectAgent(j) ==
    /\ jpc[j] = "select"
    /\ attempts' = [attempts EXCEPT ![j] = @ + 1]
    /\ LET c == ChosenAgent(agents, next_agent)
       IN  IF c = NoSlot
           THEN /\ reports' = Report(reports, j, NoAgentResult)
                /\ jpc' = [jpc EXCEPT ![j] = "done"]
                /\ UNCHANGED <<jslot, jcur>>
           ELSE /\ jslot' = [jslot EXCEPT ![j] = c]
                /\ jcur' = [jcur EXCEPT ![j] = next_agent]
                /\ jpc' = [jpc EXCEPT ![j] = "incr"]
                /\ UNCHANGED reports
    /\ UNCHANGED <<coreVars, call, cb, sd, faults, connVars, closeVars, syncVars, stimerVars, archVars>>

\* line 161, the store of self._next_agent += 1
IncrCursor(j) ==
    /\ jpc[j] = "incr"
    /\ next_agent' = jcur[j] + 1
    /\ jpc' = [jpc EXCEPT ![j] = "issue"]
    /\ UNCHANGED <<agents, link, running, closed, is_testing, jslot, jcur, call, cb,
                   reports, attempts, sd, faults, connVars, closeVars, syncVars, stimerVars, archVars>>

\* lines 175-177: issue the asynchronous new_job call; lines 180-181 on failure
IssueJob(j) ==
    /\ jpc[j] = "issue"
    /\ IF IssueRaises(agents, link, jslot[j])
       THEN /\ jpc' = [jpc EXCEPT ![j] = "recover"]
            /\ sd' = [sd EXCEPT ![JobT(j)] = StartSd(jslot[j], running, agents)]
            /\ UNCHANGED <<call, cb>>
       ELSE /\ jpc' = [jpc EXCEPT ![j] = "append"]
            /\ call' = [call EXCEPT ![j] = "pending"]
            /\ cb' = [cb EXCEPT ![j] = FALSE]
            /\ UNCHANGED sd
    /\ UNCHANGED <<coreVars, jslot, jcur, reports, attempts, faults,
                   connVars, closeVars, syncVars, stimerVars, archVars>>

\* line 178
AppendJob(j) ==
    /\ jpc[j] = "append"
    /\ running' = RunningAppend(running, jslot[j], j)
    /\ jpc' = [jpc EXCEPT ![j] = "addcb"]
    /\ UNCHANGED <<agents, link, next_agent, closed, is_testing, jslot, jcur, call, cb,
                   reports, attempts, sd, faults, connVars, closeVars, syncVars, stimerVars, archVars>>

\* line 179: AsyncResult.add_callback runs the callback at once when the result
\* has already arrived, and stores it otherwise; an exception of the callback
\* is caught by the except of line 180
AddCallback(j) ==
    /\ jpc[j] = "addcb"
    /\ IF call[j] \in {"ok", "err"}
       THEN IF JobEndedRaises(running, j, jslot[j])
            THEN /\ jpc' = [jpc EXCEPT ![j] = "recover"]
                 /\ sd' = [sd EXCEPT ![JobT(j)] = StartSd(jslot[j], running, agents)]
                 /\ UNCHANGED <<running, reports, cb>>
            ELSE /\ running' = JobEndedRunning(running, j, jslot[j])
                 /\ reports' = Report(reports, j,
                                      IF call[j] = "err" THEN ErrorResult ELSE OkResult)
                 /\ jpc' = [jpc EXCEPT ![j] = "done"]
                 /\ UNCHANGED <<sd, cb>>
       ELSE /\ cb' = [cb EXCEPT ![j] = TRUE]
            /\ jpc' = [jpc EXCEPT ![j] = "done"]
            /\ UNCHANGED <<running, reports, sd>>
    /\ UNCHANGED <<agents, link, next_agent, closed, is_testing, jslot, jcur, call,
                   attempts, faults, connVars, closeVars, syncVars, stimerVars, archVars>>

\* ---------------------------------------------------- _execute_job_callback
\* lines 189-195, run by the serving thread when the reply of new_job arrives
DeliverReply(j, res) ==
    LET a == jslot[j] IN
    /\ call[j] = "pending"
    /\ link[a] = "up"
    /\ PumpIdle(a)
    /\ call' = [call EXCEPT ![j] = res]
    /\ IF ~cb[j]
       THEN UNCHANGED <<running, reports, link>>
       ELSE IF JobEndedRaises(running, j, a)
            THEN /\ link' = [link EXCEPT ![a] = "unserved"]
                 /\ UNCHANGED <<running, reports>>
            ELSE /\ running' = JobEndedRunning(running, j, a)
                 /\ reports' = Report(reports, j,
                                      IF res = "err" THEN ErrorResult ELSE OkResult)
                 /\ UNCHANGED link
    /\ UNCHANGED <<agents, next_agent, closed, is_testing, jpc, jslot, jcur, cb,
                   attempts, sd, faults, connVars, closeVars, syncVars, stimerVars, archVars>>

\* ------------------------------------------------------------ _agent_shutdown
\* The thread that ran _agent_shutdown goes on: _execute_job re-submits
\* (line 182), close() goes to its join (line 248), the serving thread is done.
AfterShutdown(t) ==
    /\ IF t[1] = "job" THEN jpc' = [jpc EXCEPT ![t[2]] = "select"] ELSE UNCHANGED jpc
    /\ IF t[1] = "close" THEN clpc' = "join" ELSE UNCHANGED clpc

\* The ValueError of line 186 leaves _agent_shutdown through map() (line 224 is
\* outside the try of line 226) and then leaves the caller.
ShutdownRaised(t) ==
    /\ IF t[1] = "job" THEN jpc' = [jpc EXCEPT ![t[2]] = "raised"] ELSE UNCHANGED jpc
    /\ IF t[1] = "close" THEN clpc' = "raised" ELSE UNCHANGED clpc

\* line 224, one step of the list iterator inside map(): the next element is
\* the one at the iterator's index of the list as it is now
SdNext(t) ==
    /\ sd[t].ph = "next"
    /\ LET f == sd[t]
           L == IF f.live THEN running[f.slot] ELSE f.old
       IN  sd' = [sd EXCEPT ![t] =
                    IF f.k < Len(L)
                    THEN [f EXCEPT !.ph = "ended", !.cur = L[f.k + 1], !.k = f.k + 1]
                    ELSE [f EXCEPT !.ph = "clear"]]
    /\ UNCHANGED <<coreVars, jobVars, faults, connVars, closeVars, syncVars, stimerVars, archVars>>

\* line 224, the lambda: self._job_ended(jid, {'result': 'crash', 'text':
\* 'Remote agent shutdown'}, agent_id)
SdEnded(t) ==
    /\ sd[t].ph = "ended"
    /\ LET f == sd[t] IN
       IF JobEndedRaises(running, f.cur, f.slot)
       THEN /\ sd' = [sd EXCEPT ![t] = NoSd]
            /\ ShutdownRaised(t)
            /\ UNCHANGED <<running, reports>>
       ELSE /\ running' = JobEndedRunning(running, f.cur, f.slot)
            /\ reports' = Report(reports, f.cur, ShutdownResult)
            /\ sd' = [sd EXCEPT ![t] = [f EXCEPT !.ph = "next", !.cur = 0]]
            /\ UNCHANGED <<jpc, clpc>>
    /\ UNCHANGED <<agents, link, next_agent, closed, is_testing, jslot, jcur, call, cb,
                   attempts, faults, connVars, clentry, syncVars, stimerVars, archVars>>

\* lines 227-228: the slot loses its handle and gets a new empty list; the
\* iterators other threads hold on the old list keep that list.  Line 229 for
\* the serving thread and for close() raises inside the try (join of the
\* current thread, None has no close) and changes nothing.
SdClear(t) ==
    /\ sd[t].ph = "clear"
    /\ LET a == sd[t].slot IN
       /\ agents' = [agents EXCEPT ![a] = None]
       /\ running' = [running EXCEPT ![a] = <<>>]
       /\ sd' = [u \in Threads |->
                   IF u = t
                   THEN IF t[1] = "job" THEN [sd[t] EXCEPT !.ph = "close"] ELSE NoSd
                   ELSE IF sd[u].ph \in {"next", "ended"} /\ sd[u].slot = a /\ sd[u].live
                        THEN [sd[u] EXCEPT !.live = FALSE, !.old = running[a]]
                        ELSE sd[u]]
    /\ IF t[1] = "job" THEN UNCHANGED <<jpc, clpc>> ELSE AfterShutdown(t)
    /\ UNCHANGED <<link, next_agent, closed, is_testing, jslot, jcur, call, cb, reports,
                   attempts, faults, connVars, clentry, syncVars, stimerVars, archVars>>

\* line 229 in a submitting thread: BgServingThread.close() stops and joins the
\* serving thread that self._agents_thread[agent_id] names now
SdClose(t) ==
    /\ sd[t].ph = "close"
    /\ LET a == sd[t].slot IN
       IF link[a] \in {"up", "broken"}
       THEN /\ PumpIdle(a)
            /\ link' = [link EXCEPT ![a] = IF agents[a] = None THEN "none" ELSE "unserved"]
       ELSE UNCHANGED link
    /\ sd' = [sd EXCEPT ![t] = NoSd]
    /\ AfterShutdown(t)
    /\ UNCHANGED <<agents, running, next_agent, closed, is_testing, jslot, jcur, call, cb,
                   reports, attempts, faults, connVars, clentry, syncVars, stimerVars, archVars>>

\* ------------------------------------------------------ _on_agent_disconnection
\* lines 215-218: the serving thread meets the end of the stream, closes the
\* connection, and on_disconnect calls _agent_shutdown(agent_id)
OnDisconnect(i) ==
    /\ link[i] = "broken"
    /\ PumpIdle(i)
    /\ link' = [link EXCEPT ![i] = "none"]
    /\ sd' = [sd EXCEPT ![PumpT(i)] = StartSd(i, running, agents)]
    /\ UNCHANGED <<agents, running, next_agent, closed, is_testing, jobVars, faults,
                   connVars, closeVars, syncVars, stimerVars, archVars>>

\* the environment: the transport of a live connection fails
Break(i) ==
    /\ link[i] = "up"
    /\ faults < MaxFaults
    /\ faults' = faults + 1
    /\ link' = [link EXCEPT ![i] = "broken"]
    /\ UNCHANGED <<agents, running, next_agent, closed, is_testing, jobVars, sd,
                   connVars, closeVars, syncVars, stimerVars, archVars>>

\* ------------------------------------------------------ snapshots and diffs
Paths == 1 .. MaxPaths
Snapshot == [Paths -> 0 .. MaxHash]
\* get_task_directory_hashes answers None: the agent has sync disabled
SyncDisabled == <<>>

\* directory_content_with_hash(get_tasks_directory()): path -> content hash
DirectoryContentWithHash(dir) == dir

\* directory_compare_from_hash(current, baseline): (changed, deleted)
DirectoryCompareFromHash(current, baseline) ==
    [changed |-> {p \in Paths : current[p] # 0 /\ current[p] # baseline[p]},
     deleted |-> {p \in Paths : baseline[p] # 0 /\ current[p] = 0}]

\* a remote call on the slot's connection cannot be issued
CallRaises(ag, ln, i) == ag[i] = None \/ ln[i] \in {"none", "broken"}

\* ------------------------------------------------------ _try_agent_connection
\* the timer is started again in test mode too
ConnTimerAlways(testing) == "armed"

\* lines 87-88: the timer is started again only outside test mode
ConnTimerAfterCycle(testing) == IF testing THEN "stopped" ELSE "armed"

\* the timer fires; lines 69-70
ConnFire ==
    /\ ctimer = "armed"
    /\ cycles < MaxCycles
    /\ cycles' = cycles + 1
    /\ IF closed
       THEN ctimer' = "stopped" /\ UNCHANGED <<centry, cphase>>
       ELSE ctimer' = "running" /\ centry' = 0 /\ cphase' = "connect"
    /\ UNCHANGED <<coreVars, jobVars, sd, faults, closeVars, syncVars, stimerVars, archVars>>

\* lines 72-83: a slot with a handle is skipped; rpyc.connect fails or succeeds
ConnTry(ok) ==
    /\ ctimer = "running" /\ cphase = "connect" /\ centry < NumAgents
    /\ LET i == centry IN
       IF agents[i] # None \/ ~ok
       THEN /\ agents[i] # None => ok
            /\ centry' = centry + 1
            /\ UNCHANGED <<agents, link, call, alias, hreq, upd, fullsync, cphase>>
       ELSE /\ link[i] # "broken" /\ PumpIdle(i)
            /\ agents' = [agents EXCEPT ![i] = Conn]
            /\ link' = [link EXCEPT ![i] = "up"]
            /\ call' = [j \in Jobs |->
                          IF call[j] = "pending" /\ jslot[j] = i THEN "lost" ELSE call[j]]
            /\ alias' = [alias EXCEPT ![i] = FALSE]
            /\ hreq' = [hreq EXCEPT ![i] = {}]
            /\ upd' = [upd EXCEPT ![i] = {}]
            /\ fullsync' = [fullsync EXCEPT ![i] = "none"]
            /\ cphase' = "alias"
            /\ UNCHANGED centry
    /\ UNCHANGED <<running, next_agent, closed, is_testing, jpc, jslot, jcur, cb, reports,
                   attempts, sd, faults, ctimer, cycles, closeVars,
                   task_dir, last_content, remote_td, tmpfiles, stimerVars, archVars>>

\* line 84 and lines 90-93: update_image_aliases(...).wait(); an exception
\* leaves _try_agent_connection before line 88
ConnAlias ==
    /\ ctimer = "running" /\ cphase = "alias"
    /\ IF CallRaises(agents, link, centry)
       THEN ctimer' = "died" /\ UNCHANGED <<alias, cphase>>
       ELSE /\ alias' = [alias EXCEPT ![centry] = TRUE]
            /\ cphase' = "sync"
            /\ UNCHANGED ctimer
    /\ UNCHANGED <<coreVars, jobVars, sd, faults, centry, cycles, closeVars, task_dir,
                   last_content, remote_td, hreq, upd, fullsync, tmpfiles, stimerVars, archVars>>

\* line 85 and lines 120-122: the hash request of the full sync is issued
ConnSync ==
    /\ ctimer = "running" /\ cphase = "sync"
    /\ IF CallRaises(agents, link, centry)
       THEN ctimer' = "died" /\ UNCHANGED <<hreq, fullsync, cphase, centry>>
       ELSE /\ hreq' = [hreq EXCEPT ![centry] = @ \cup {[td |-> last_content, full |-> TRUE]}]
            /\ fullsync' = [fullsync EXCEPT ![centry] = "hash"]
            /\ cphase' = "connect"
            /\ centry' = centry + 1
            /\ UNCHANGED ctimer
    /\ UNCHANGED <<coreVars, jobVars, sd, faults, cycles, closeVars, task_dir,
                   last_content, remote_td, alias, upd, tmpfiles, stimerVars, archVars>>

\* lines 87-88
ConnEnd ==
    /\ ctimer = "running" /\ cphase = "connect" /\ centry = NumAgents
    /\ ctimer' = ConnTimerAfterCycle(is_testing)
    /\ UNCHANGED <<coreVars, jobVars, sd, faults, centry, cphase, cycles, closeVars,
                   syncVars, stimerVars, archVars>>

\* ------------------------------------------------------------------- close
\* line 239
CloseStart ==
    /\ clpc = "idle"
    /\ closed' = TRUE
    /\ clpc' = "loop"
    /\ clentry' = 0
    /\ UNCHANGED <<agents, link, running, next_agent, is_testing, jobVars, sd, faults,
                   connVars, syncVars, stimerVars, archVars>>

\* lines 240-247: the slot loses its handle and its thread, then entry.close()
\* closes the connection, whose on_disconnect runs _agent_shutdown(i) here
CloseEntry ==
    /\ clpc = "loop" /\ clentry < NumAgents
    /\ IF agents[clentry] = None
       THEN /\ clentry' = clentry + 1
            /\ UNCHANGED <<agents, link, sd, clpc>>
       ELSE /\ agents' = [agents EXCEPT ![clentry] = None]
            /\ link' = [link EXCEPT ![clentry] = "none"]
            /\ IF link[clentry] = "none"     \* already closed: close() returns at once
               THEN clpc' = "join" /\ UNCHANGED sd
               ELSE /\ sd' = [sd EXCEPT ![CloseT] = StartSd(clentry, running, agents)]
                    /\ clpc' = "shutdown"
            /\ UNCHANGED clentry
    /\ UNCHANGED <<running, next_agent, closed, is_testing, jobVars, faults, connVars,
                   syncVars, stimerVars, archVars>>

\* line 248: thread._thread.join()
CloseJoin ==
    /\ clpc = "join"
    /\ PumpIdle(clentry)
    /\ clpc' = "loop"
    /\ clentry' = clentry + 1
    /\ UNCHANGED <<coreVars, jobVars, sd, faults, connVars, syncVars, stimerVars, archVars>>

\* the loop of line 240 is over
CloseEnd ==
    /\ clpc = "loop" /\ clentry = NumAgents
    /\ clpc' = "done"
    /\ UNCHANGED <<coreVars, jobVars, sd, faults, connVars, clentry, syncVars, stimerVars, archVars>>

\* --------------------------------------------------- _try_synchronize_task_dir
NoSeen == [diff |-> FALSE, conn |-> {}, started |-> {}]

\* lines 108-109
SyncTimerAfterCycle(testing) == IF testing THEN "stopped" ELSE "armed"

\* the timer fires; lines 97-103
SyncFire ==
    /\ stimer = "armed"
    /\ IF closed
       THEN stimer' = "stopped" /\ UNCHANGED <<last_content, sentry, sfresh, sseen>>
       ELSE LET current == DirectoryContentWithHash(task_dir)
                d == DirectoryCompareFromHash(current, last_content)
            IN  /\ sfresh' = current
                /\ IF d.changed # {} \/ d.deleted # {}
                   THEN /\ last_content' = current
                        /\ sentry' = 0
                        /\ sseen' = [diff |-> TRUE,
                                     conn |-> {i \in Slots : agents[i] # None},
                                     started |-> {}]
                   ELSE /\ sentry' = NumAgents
                        /\ sseen' = NoSeen
                        /\ UNCHANGED last_content
                /\ stimer' = "running"
    /\ UNCHANGED <<coreVars, jobVars, sd, faults, connVars, closeVars, task_dir, remote_td,
                   alias, hreq, upd, fullsync, tmpfiles, changes, archVars>>

\* lines 104-106 and 120-122: one turn of the loop over self._agents; an
\* exception of the hash request leaves _try_synchronize_task_dir
SyncSlot ==
    /\ stimer = "running" /\ sentry < NumAgents
    /\ LET i == sentry IN
       IF agents[i] = None
       THEN sentry' = sentry + 1 /\ UNCHANGED <<stimer, hreq, sseen>>
       ELSE IF CallRaises(agents, link, i)
            THEN stimer' = "died" /\ UNCHANGED <<sentry, hreq, sseen>>
            ELSE /\ hreq' = [hreq EXCEPT ![i] = @ \cup {[td |-> last_content, full |-> FALSE]}]
                 /\ sseen' = [sseen EXCEPT !.started = @ \cup {i}]
                 /\ sentry' = sentry + 1
                 /\ UNCHANGED stimer
    /\ UNCHANGED <<coreVars, jobVars, sd, faults, connVars, closeVars, task_dir,
                   last_content, remote_td, alias, upd, fullsync, tmpfiles, sfresh, changes, archVars>>

\* lines 108-109
SyncEnd ==
    /\ stimer = "running" /\ sentry = NumAgents
    /\ stimer' = SyncTimerAfterCycle(is_testing)
    /\ UNCHANGED <<coreVars, jobVars, sd, faults, connVars, closeVars, syncVars,
                   sentry, sfresh, sseen, changes, archVars>>

\* the environment: the local task directory is edited
FSChange(dir) ==
    /\ changes < MaxChanges
    /\ dir # task_dir
    /\ changes' = changes + 1
    /\ task_dir' = dir
    /\ UNCHANGED <<coreVars, jobVars, sd, faults, connVars, closeVars, last_content,
                   remote_td, alias, hreq, upd, fullsync, tmpfiles, stimer, sentry,
                   sfresh, sseen, archVars>>

\* ---------------------------------------------------- _synchronize_task_dir_p2
\* the archive of lines 136-146: the files of to_update as they are on disk
ArchiveOf(dir, changed) == [p \in Paths |-> IF p \in changed THEN dir[p] ELSE 0]

\* update_task_directory on the agent: extract the archive, remove the deleted
ApplyUpdate(remote, u) ==
    [p \in Paths |-> IF u.files[p] # 0 THEN u.files[p]
                     ELSE IF p \in u.del THEN 0 ELSE remote[p]]

\* lines 124-151, run by the serving thread when the hash reply arrives
HashReply(i, r, failed) ==
    /\ r \in hreq[i]
    /\ link[i] = "up"
    /\ PumpIdle(i)
    /\ hreq' = [hreq EXCEPT ![i] = @ \ {r}]
    /\ IF failed
       THEN /\ fullsync' = [fullsync EXCEPT ![i] = IF r.full THEN "failed" ELSE @]
            /\ UNCHANGED <<upd, tmpfiles, link>>
       ELSE IF remote_td[i] = SyncDisabled
            THEN /\ fullsync' = [fullsync EXCEPT ![i] = IF r.full THEN "disabled" ELSE @]
                 /\ UNCHANGED <<upd, tmpfiles, link>>
            ELSE LET d == DirectoryCompareFromHash(r.td, remote_td[i]) IN
                 IF \E p \in d.changed : task_dir[p] = 0
                 THEN \* tar.add of a file that is gone raises in the serving thread
                      /\ tmpfiles' = tmpfiles + 1
                      /\ link' = [link EXCEPT ![i] = "unserved"]
                      /\ fullsync' = [fullsync EXCEPT ![i] = IF r.full THEN "failed" ELSE @]
                      /\ UNCHANGED upd
                 ELSE /\ tmpfiles' = tmpfiles + 1
                      /\ upd' = [upd EXCEPT ![i] = @ \cup
                                   {[files |-> ArchiveOf(task_dir, d.changed),
                                     del |-> d.deleted, full |-> r.full]}]
                      /\ fullsync' = [fullsync EXCEPT ![i] = IF r.full THEN "update" ELSE @]
                      /\ UNCHANGED link
    /\ UNCHANGED <<agents, running, next_agent, closed, is_testing, jobVars, sd, faults,
                   connVars, closeVars, task_dir, last_content, remote_td, alias,
                   stimerVars, archVars>>

\* line 151: the agent has applied the update; the callback closes the file
UpdateReply(i, u) ==
    /\ u \in upd[i]
    /\ link[i] = "up"
    /\ PumpIdle(i)
    /\ upd' = [upd EXCEPT ![i] = @ \ {u}]
    /\ remote_td' = [remote_td EXCEPT ![i] = ApplyUpdate(@, u)]
    /\ tmpfiles' = tmpfiles - 1
    /\ fullsync' = [fullsync EXCEPT ![i] = IF u.full THEN "done" ELSE @]
    /\ UNCHANGED <<coreVars, jobVars, sd, faults, connVars, closeVars, task_dir,
                   last_content, alias, hreq, stimerVars, archVars>>

\* ------------------------------------------- the archive of lines 135-146
\* A path is a string, here a sequence of the characters of Chars.  The task
\* root is a directory whose name cannot be written with them.
MaxName == 4
MaxUpdate == 2
Chars == {"a", ".", "/"}
PathNames == UNION {[1 .. n -> Chars] : n \in 1 .. MaxName}
RootComps == <<<<"R">>>>
Dot == <<".">>
DotDot == <<".", ".">>

\* str.split('/')
SplitPath(p) ==
    LET F[n \in 0 .. Len(p)] ==
            IF n = 0 THEN << <<>> >>
            ELSE IF p[n] = "/" THEN Append(F[n - 1], <<>>)
                 ELSE [F[n - 1] EXCEPT ![Len(F[n - 1])] = Append(@, p[n])]
    IN  F[Len(p)]

\* os.path.normpath of an absolute path given by its components: empty and
\* '.' components are dropped, '..' removes the one before it and stays at '/'
NormPath(comps) ==
    LET F[n \in 0 .. Len(comps)] ==
            IF n = 0 THEN <<>>
            ELSE LET c == comps[n]
                     prev == F[n - 1]
                 IN  IF c = <<>> \/ c = Dot THEN prev
                     ELSE IF c = DotDot
                          THEN IF prev = <<>> THEN <<>>
                               ELSE SubSeq(prev, 1, Len(prev) - 1)
                          ELSE Append(prev, c)
    IN  F[Len(comps)]

\* lines 139-140, os.path.join(get_tasks_directory(), path), made absolute and
\* normal: an absolute path replaces the root
JoinedPath(p) ==
    IF p[1] = "/" THEN NormPath(SplitPath(p))
    ELSE NormPath(RootComps \o SplitPath(p))

\* '/'.join(comps)
JoinComps(comps) ==
    LET F[n \in 0 .. Len(comps)] ==
            IF n = 0 THEN <<>>
            ELSE IF n = 1 THEN comps[1]
                 ELSE F[n - 1] \o <<"/">> \o comps[n]
    IN  F[Len(comps)]

\* os.path.relpath(os.path.join(root, path), root)
RelPath(p) ==
    LET a == JoinedPath(p)
    IN  IF Len(a) >= 1 /\ a[1] = RootComps[1]
        THEN IF Len(a) = 1 THEN Dot ELSE JoinComps(Tail(a))
        ELSE JoinComps(<<DotDot>> \o a)

\* ".." in path: the two characters anywhere in the string
DotDotIn(p) == \E k \in 1 .. (Len(p) - 1) : p[k] = "." /\ p[k + 1] = "."

\* line 139: the path is added only if this holds
SafePath(p) == RelPath(p) = p /\ ~DotDotIn(p)

\* the path leads out of the task root
EscapesRoot(p) ==
    LET a == JoinedPath(p) IN Len(a) = 0 \/ a[1] # RootComps[1]

\* the path names a file under the task root
InsideRoot(p) ==
    LET a == JoinedPath(p) IN Len(a) >= 2 /\ a[1] = RootComps[1]

\* the path as a directory walk gives it: names separated by '/', none of them
\* empty, '.' or '..'
WalkedPath(p) ==
    \A k \in DOMAIN SplitPath(p) : SplitPath(p)[k] \notin {<<>>, Dot, DotDot}

\* lines 137-141: one turn of the loop over to_update
ArchiveAdd ==
    /\ tpos < Len(to_update)
    /\ tpos' = tpos + 1
    /\ tar' = IF SafePath(to_update[tpos + 1]) THEN tar \cup {to_update[tpos + 1]} ELSE tar
    /\ UNCHANGED <<coreVars, jobVars, sd, faults, connVars, closeVars, syncVars,
                   stimerVars, to_update>>

\* ------------------------------------------------------------------- Init
\* __init__, lines 52-65: the state once the constructor has returned.  Its
\* call of _try_agent_connection (line 62) has connected some of the agents,
\* pushed the image aliases to each of them and issued the hash request of
\* its full sync; both timers are started as lines 59 and 87-88 say.
InitPool(connected) ==
    /\ agents = [i \in Slots |-> IF i \in connected THEN Conn ELSE None]
    /\ link = [i \in Slots |-> IF i \in connected THEN "up" ELSE "none"]
    /\ running = [i \in Slots |-> <<>>]
    /\ closed = FALSE
    /\ alias = [i \in Slots |-> i \in connected]
    /\ hreq = [i \in Slots |-> IF i \in connected
                               THEN {[td |-> last_content, full |-> TRUE]} ELSE {}]
    /\ upd = [i \in Slots |-> {}]
    /\ fullsync = [i \in Slots |-> IF i \in connected THEN "hash" ELSE "none"]
    /\ tmpfiles = 0
    /\ ctimer = ConnTimerAfterCycle(is_testing)
    /\ centry = NumAgents /\ cphase = "connect" /\ cycles = 0
    /\ stimer = "armed"
    /\ sentry = NumAgents /\ sfresh = last_content /\ sseen = NoSeen /\ changes = 0
    /\ clpc = "idle" /\ clentry = 0
    /\ sd = [t \in Threads |-> NoSd]
    /\ faults = 0

\* no archive is being built
NoArchive == to_update = <<>> /\ tpos = 0 /\ tar = {}

InitJobs(submitted) ==
    /\ jpc = [j \in Jobs |-> IF j \in submitted THEN "select" ELSE "unused"]
    /\ jslot = [j \in Jobs |-> 0]
    /\ jcur = [j \in Jobs |-> 0]
    /\ call = [j \in Jobs |-> "none"]
    /\ cb = [j \in Jobs |-> FALSE]
    /\ reports = [j \in Jobs |-> <<>>]
    /\ attempts = [j \in Jobs |-> 0]

FullDir == [p \in Paths |-> 1]

\* dispatch and fault recovery: every job is handed to _execute_job, the task
\* directory is not edited and the agents do not answer the hash requests
Init ==
    /\ is_testing \in BOOLEAN
    /\ task_dir = FullDir
    /\ last_content = FullDir
    /\ remote_td = [i \in Slots |-> SyncDisabled]
    /\ next_agent = 0
    /\ \E connected \in SUBSET Slots : InitPool(connected)
    /\ InitJobs(Submitted)
    /\ NoArchive

JobStep ==
    \/ \E j \in Jobs : SelectAgent(j)
    \/ \E j \in Jobs : IncrCursor(j)
    \/ \E j \in Jobs : IssueJob(j)
    \/ \E j \in Jobs : AppendJob(j)
    \/ \E j \in Jobs : AddCallback(j)
    \/ \E j \in Jobs, res \in {"ok", "err"} : DeliverReply(j, res)

ShutdownStep ==
    \/ \E t \in Threads : SdNext(t)
    \/ \E t \in Threads : SdEnded(t)
    \/ \E t \in Threads : SdClear(t)
    \/ \E t \in Threads : SdClose(t)
    \/ \E i \in Slots : OnDisconnect(i)
    \/ \E i \in Slots : Break(i)

ConnectStep ==
    \/ ConnFire
    \/ \E ok \in BOOLEAN : ConnTry(ok)
    \/ ConnAlias
    \/ ConnSync
    \/ ConnEnd

CloseStep ==
    \/ CloseStart
    \/ CloseEntry
    \/ CloseJoin
    \/ CloseEnd

SyncReplyStep ==
    \/ \E i \in Slots, failed \in BOOLEAN : \E r \in hreq[i] : HashReply(i, r, failed)
    \/ \E i \in Slots : \E u \in upd[i] : UpdateReply(i, u)

SyncTimerStep ==
    \/ SyncFire
    \/ SyncSlot
    \/ SyncEnd
    \/ \E dir \in Snapshot : FSChange(dir)

\* Spec: job dispatch and fault recovery
Next == JobStep \/ ShutdownStep

Spec == Init /\ [][Next]_vars

\* ------------------------------------------------------------- SpecSelect
\* _select_agent called again and again, one call after the other, over a set
\* of connected slots that does not change; the cursor starts at a value that
\* earlier calls have left
MaxCursor == 3

InitSelect ==
    /\ is_testing \in BOOLEAN
    /\ task_dir = FullDir
    /\ last_content = FullDir
    /\ remote_td = [i \in Slots |-> SyncDisabled]
    /\ next_agent \in 0 .. MaxCursor
    /\ \E connected \in SUBSET Slots : InitPool(connected)
    /\ InitJobs(Jobs)
    /\ NoArchive

SeqSelect(j) == (\A k \in Jobs : jpc[k] # "incr") /\ SelectAgent(j)

NextSelect ==
    \/ \E j \in Jobs : SeqSelect(j)
    \/ \E j \in Jobs : IncrCursor(j)

SpecSelect == InitSelect /\ [][NextSelect]_vars

\* --------------------------------------------------------------- SpecConn
\* connection and reconnection: one job is handed to _execute_job while the
\* connect timer runs and the agents answer the calls of the sync
EmptyDir == [p \in Paths |-> 0]

InitConn ==
    /\ is_testing \in BOOLEAN
    /\ task_dir = FullDir
    /\ last_content = FullDir
    /\ remote_td \in [Slots -> {SyncDisabled, EmptyDir}]
    /\ next_agent = 0
    /\ \E connected \in SUBSET Slots : InitPool(connected)
    /\ InitJobs({1})
    /\ NoArchive

NextConn == JobStep \/ ShutdownStep \/ ConnectStep \/ SyncReplyStep

SpecConn == InitConn /\ [][NextConn]_vars

\* --------------------------------------------------------------- SpecSync
\* task directory synchronisation: no job is submitted, the task directory
\* is edited and the sync timer runs
InitSync ==
    /\ is_testing \in BOOLEAN
    /\ task_dir = FullDir
    /\ last_content = FullDir
    /\ remote_td \in [Slots -> {SyncDisabled, EmptyDir}]
    /\ next_agent = 0
    /\ \E connected \in SUBSET Slots : InitPool(connected)
    /\ InitJobs({})
    /\ NoArchive

NextSync ==
    \/ SyncTimerStep
    \/ SyncReplyStep
    \/ \E i \in Slots : Break(i)
    \/ \E i \in Slots : OnDisconnect(i)
    \/ \E i \in Slots : SdNext(PumpT(i))
    \/ \E i \in Slots : SdClear(PumpT(i))

SpecSync == InitSync /\ [][NextSync]_vars

\* -------------------------------------------------------------- SpecClose
\* close() called while a job is being dispatched and the connect timer runs
InitClose ==
    /\ is_testing \in BOOLEAN
    /\ task_dir = FullDir
    /\ last_content = FullDir
    /\ remote_td = [i \in Slots |-> SyncDisabled]
    /\ next_agent = 0
    /\ \E connected \in SUBSET Slots : InitPool(connected)
    /\ InitJobs({1})
    /\ NoArchive

NextClose == JobStep \/ ShutdownStep \/ ConnectStep \/ CloseStep

SpecClose == InitClose /\ [][NextClose]_vars

\* ------------------------------------------------------------- SpecArchive
\* the loop of lines 137-141 over a list to_update of any paths
InitArchive ==
    /\ is_testing = FALSE
    /\ task_dir = FullDir
    /\ last_content = FullDir
    /\ remote_td = [i \in Slots |-> SyncDisabled]
    /\ next_agent = 0
    /\ InitPool({})
    /\ InitJobs({})
    /\ to_update \in [1 .. MaxUpdate -> PathNames]
    /\ tpos = 0
    /\ tar = {}

NextArchive == ArchiveAdd

SpecArchive == InitArchive /\ [][NextArchive]_vars

\* ------------------------------------------------------------ SpecRecover
\* jobs handed to _execute_job one after the other: a job is submitted once
\* the calls of _execute_job for the jobs before it have returned, so that
\* the last one meets slots that already have jobs running
InitRecover ==
    /\ is_testing = FALSE
    /\ task_dir = FullDir
    /\ last_content = FullDir
    /\ remote_td = [i \in Slots |-> SyncDisabled]
    /\ next_agent = 0
    /\ \E connected \in SUBSET Slots : InitPool(connected)
    /\ InitJobs(Jobs)
    /\ NoArchive

SeqJob(j) == (\A k \in Jobs : k < j => jpc[k] = "done") /\ SelectAgent(j)

NextRecover ==
    \/ \E j \in Jobs : SeqJob(j)
    \/ \E j \in Jobs : IncrCursor(j)
    \/ \E j \in Jobs : IssueJob(j)
    \/ \E j \in Jobs : AppendJob(j)
    \/ \E j \in Jobs : AddCallback(j)
    \/ \E j \in Jobs, res \in {"ok", "err"} : DeliverReply(j, res)
    \/ ShutdownStep

SpecRecover == InitRecover /\ [][NextRecover]_vars

\* ------------------------------------------------------------------ claims
Connected == {i \in Slots : agents[i] # None}

\* the number of running sets a job id is in, counting repetitions
Occurrences(j) ==
    LET F[n \in 0 .. NumAgents] ==
            IF n = 0 THEN 0 ELSE F[n - 1] + Count(running[n - 1], j)
    IN  F[NumAgents]

\* nothing is left to happen for the jobs: every _execute_job has returned, no
\* thread is inside _agent_shutdown, every disconnect has been notified, and
\* every call still without a reply was issued on a slot since reported
\* disconnected
Quiescent ==
    /\ \A j \in Jobs : jpc[j] \in {"done", "unused"}
    /\ \A t \in Threads : sd[t].ph = "off"
    /\ \A i \in Slots : link[i] \in {"up", "none"}
    /\ \A j \in Jobs : call[j] = "pending" => link[jslot[j]] = "none"

\* C1: for every job id handed to _execute_job, the upstream job-ended callback
\* is invoked at most once, in any interleaving of dispatch, completion
\* callback, disconnect notification and dispatch failure with retry.
C1_AtMostOneReport == \A j \in Jobs : Len(reports[j]) <= 1

\* C2: when _agent_shutdown ends for a slot whose running set held k >= 1 jobs
\* when it began, each of those jobs has exactly one 'Remote agent shutdown'
\* crash result (or has completed in the meantime) and the running set is empty.
C2_ShutdownFailsEveryJob ==
    [][\A t \in Threads :
         (sd[t].ph = "clear" /\ sd'[t].ph # "clear") =>
            /\ running'[sd[t].slot] = <<>>
            /\ \A j \in Range(sd[t].start) :
                  \/ Count(reports'[j], ShutdownResult) = 1
                  \/ OkResult \in Range(reports'[j])
                  \/ ErrorResult \in Range(reports'[j])]_vars

\* C3: once nothing is left to happen (every issued call has been answered or
\* its slot has been reported disconnected), every job handed to _execute_job
\* has received a result.
C3_EveryJobReported ==
    Quiescent => \A j \in Jobs : jpc[j] # "unused" => reports[j] # <<>>

\* C4: a job id is in at most one slot's running set, and at most once in it,
\* also across the retries of a failed dispatch.
C4_OneRunningSet == \A j \in Jobs : Occurrences(j) <= 1

\* a job that was dispatched again after a failed dispatch is in a running set
C4_Witness ==
    \E j \in Jobs : attempts[j] >= 2 /\ \E i \in Slots : j \in Range(running[i])

\* C5: over a fixed set of N >= 1 connected slots, N sequential _select_agent
\* calls that follow each other (their cursor values are N consecutive numbers)
\* return each of the N slots exactly once.
C5_RoundRobin ==
    \A W \in SUBSET Jobs :
        (/\ W # {}
         /\ \A j \in W : jpc[j] \in {"incr", "issue"}
         /\ Cardinality(W) = Cardinality(Connected)
         /\ \E lo \in 0 .. (MaxCursor + MaxJobs) :
               {jcur[j] : j \in W} = lo .. (lo + Cardinality(W) - 1))
        => {jslot[j] : j \in W} = Connected

\* two slots are connected and two calls in a row have been answered
C5_Witness ==
    /\ Cardinality(Connected) >= 2
    /\ \E W \in SUBSET Jobs :
          /\ Cardinality(W) = Cardinality(Connected)
          /\ \A j \in W : jpc[j] = "issue"
          /\ \E lo \in 0 .. (MaxCursor + MaxJobs) :
                {jcur[j] : j \in W} = lo .. (lo + Cardinality(W) - 1)

\* C6: _select_agent returns None exactly when no slot is connected, returns a
\* connected slot otherwise, and the cursor only ever increases: by one for a
\* successful selection, not at all when None is returned.
C6_SelectContract ==
    [][/\ next_agent' \in {next_agent, next_agent + 1}
       /\ \A j \in Jobs :
            /\ (jpc[j] = "select" /\ jpc'[j] = "done") =>
                  (Connected = {} /\ next_agent' = next_agent)
            /\ (jpc[j] = "select" /\ jpc'[j] = "incr") => jslot'[j] \in Connected
            /\ (jpc[j] = "incr" /\ jpc'[j] = "issue") => next_agent' = next_agent + 1
      ]_vars

\* C7: _execute_job called when no slot is connected reports exactly one crash
\* result (no agent available) and returns: no remote call, no retry, no
\* change of a running set or of the slot table.
C7_NoAgentAvailable ==
    [][\A j \in Jobs :
         (jpc[j] = "select" /\ jpc'[j] # "select" /\ Connected = {}) =>
            /\ reports'[j] = Append(reports[j], NoAgentResult)
            /\ jpc'[j] = "done"
            /\ call' = call /\ cb' = cb
            /\ running' = running /\ agents' = agents /\ link' = link
            /\ next_agent' = next_agent]_vars

\* the first call of _execute_job for a job found no agent; the job has its
\* single crash result and no call was issued for it
C7_Witness ==
    \E j \in Jobs : /\ attempts[j] = 1 /\ jpc[j] = "done" /\ call[j] = "none"
                    /\ reports[j] = <<NoAgentResult>>

\* C8: a slot is returned by _select_agent only after the image-alias push and
\* the full task-directory sync of its connection have completed.
C8_SyncBeforeSelect ==
    [][\A j \in Jobs :
         (jpc[j] = "select" /\ jpc'[j] = "incr") =>
            /\ alias[jslot'[j]]
            /\ fullsync[jslot'[j]] \in {"done", "disabled"}]_vars

C10_CheckAndSync ==
    (stimer # "running") =>
        IF sseen.diff
        THEN /\ last_content = sfresh
             /\ \A i \in sseen.conn :
                   (agents[i] # None /\ link[i] = "up") => i \in sseen.started
        ELSE sseen.started = {}

\* C11: every result with status crash that reaches the upstream callback
\* carries a text field, whichever path produced it: no agent available,
\* remote agent shutdown, or an error reported by the completion handler.
C11_CrashHasText ==
    \A j \in Jobs : \A k \in DOMAIN reports[j] :
        reports[j][k].result = "crash" => "text" \in DOMAIN reports[j][k]

\* C12: _execute_job never lets an exception reach its caller, whatever fails
\* while selecting, issuing the call, registering the callback or running
\* _agent_shutdown for the chosen slot.
C12_SubmitNeverRaises == \A j \in Jobs : jpc[j] # "raised"

\* C13: once close() has been called no slot gets a connection handle any
\* more, also when a cycle of _try_agent_connection was already running, and
\* when close() has returned every slot is without a handle.
C13_ClosedStaysClosed ==
    [][closed =>
         /\ \A i \in Slots : agents[i] = None => agents'[i] = None
         /\ clpc' = "done" => \A i \in Slots : agents'[i] = None]_vars

\* C14: a step of an _agent_shutdown that was called on a slot already without
\* a handle changes no slot, no running set and not the cursor, and reports
\* no job result (so a second call in a row adds nothing to the first).
C14_ShutdownIdempotent ==
    [][\A t \in Threads :
         (sd[t].ph # "off" /\ sd[t].disc /\ sd'[t].ph # sd[t].ph) =>
            /\ agents' = agents
            /\ running' = running
            /\ next_agent' = next_agent
            /\ reports' = reports]_vars

\* C15: _agent_shutdown never raises: every activation ends by its own last
\* statements (lines 227-229), never in the middle of line 224, and leaves
\* the slot without a handle.
C15_ShutdownNeverRaises ==
    [][\A t \in Threads :
         (sd[t].ph # "off" /\ sd'[t].ph = "off") =>
            /\ sd[t].ph \in {"clear", "close"}
            /\ agents'[sd[t].slot] = None]_vars

\* C16: once the loop over to_update is over, no path that leaves the task
\* root is in the archive, and every path of to_update that names a file under
\* the root is in it, whatever characters its names contain; a path that is
\* left out does not keep the others out.
C16_ArchiveExact ==
    (to_update # <<>> /\ tpos = Len(to_update)) =>
        \A k \in DOMAIN to_update :
            LET q == to_update[k] IN
            /\ EscapesRoot(q) => q \notin tar
            /\ (WalkedPath(q) /\ InsideRoot(q)) => q \in tar

\* C17: once nothing of the sync started at connection is pending any more
\* for a connected slot whose agent has sync enabled, the agent's task
\* directory equals the stored snapshot, whatever the outcome of the hash
\* request was (no later cycle of _try_synchronize_task_dir is needed).
C17_ConvergesAfterConnect ==
    \A i \in Slots :
        (/\ agents[i] # None /\ link[i] = "up"
         /\ fullsync[i] \notin {"none", "hash", "update"}
         /\ remote_td[i] # SyncDisabled)
        => remote_td[i] = last_content

\* C18: when the dispatch of a job on its slot has failed, the job is submitted
\* again (line 182) only once the slot has lost its handle and every job that
\* was running on it has a result; the shutdown run for the failure does not
\* report the failed job itself; and, no slot being connected again in the
\* meantime, the retry does not select the slot that failed.
C18_RecoverThenRetry ==
    [][\A j \in Jobs :
         /\ (jpc[j] = "recover" /\ jpc'[j] = "select") =>
               /\ agents'[jslot[j]] = None
               /\ \A x \in Range(sd[JobT(j)].start) : reports'[x] # <<>>
         /\ (jpc[j] = "recover" /\ sd[JobT(j)].ph = "ended"
                                /\ sd'[JobT(j)].ph # "ended") =>
               reports'[j] = reports[j]
         /\ (jpc[j] = "select" /\ attempts[j] >= 1 /\ jpc'[j] = "incr") =>
               jslot'[j] # jslot[j]]_vars

\* C19: no failure leaves a cycle of _try_agent_connection or of
\* _try_synchronize_task_dir: neither timer thread ends by an exception, so
\* the remaining slots are visited and the timer is started again.
C19_CycleNeverDies == ctimer # "died" /\ stimer # "died"

\* C20: the cursor is updated atomically: over a set of connected slots that
\* has not changed (no failure has occurred), once k concurrent calls of
\* _select_agent have returned the cursor is k, and when k is the number of
\* connected slots no two of the calls have returned the same slot.
C20_AtomicCursor ==
    LET Selected == {j \in Jobs : jpc[j] \notin {"unused", "select", "incr"}}
    IN  (/\ faults = 0
         /\ Connected # {}
         /\ \A j \in Jobs : jpc[j] \notin {"select", "incr"})
        => /\ next_agent = Cardinality(Selected)
           /\ Cardinality(Selected) = Cardinality(Connected) =>
                 \A j, k \in Selected : j # k => jslot[j] # jslot[k]

\* C21: a run of the completion handler for a reply that carries an error (by
\* the serving thread, or at once by add_callback) reports one crash result
\* for that job and removes it from its slot's running set; the slot table,
\* the connections, the other running jobs, the other jobs' results and the
\* cursor stay as they are.
C21_ErrorTouchesOneJob ==
    [][\A j \in Jobs :
         (\/ (call[j] = "pending" /\ call'[j] = "err" /\ cb[j])
          \/ (jpc[j] = "addcb" /\ jpc'[j] # "addcb" /\ call[j] = "err")) =>
            /\ reports' = Report(reports, j, ErrorResult)
            /\ j \in Range(running[jslot[j]])
            /\ running' = JobEndedRunning(running, j, jslot[j])
            /\ agents' = agents /\ link' = link
            /\ next_agent' = next_agent]_vars

\* C22: when the completion handler reports a result for a job (success or
\* error reply), the job has been removed from the running set of its slot, and
\* at that moment it is in no running set.
C22_RemovedBeforeReport ==
    [][\A j \in Jobs :
         (/\ Len(reports'[j]) = Len(reports[j]) + 1
          /\ reports'[j][Len(reports'[j])] \in {OkResult, ErrorResult}) =>
            \A i \in Slots : j \notin Range(running'[i])]_vars

\* C22: one job was reported by the success path and another by the error path,
\* and neither is in a running set
C22_Witness ==
    \E j, k \in Jobs :
        /\ OkResult \in Range(reports[j])
        /\ ErrorResult \in Range(reports[k])
        /\ \A i \in Slots : j \notin Range(running[i]) /\ k \notin Range(running[i])

\* C23: every archive temporary file that _synchronize_task_dir_p2 has opened
\* is closed in the end: as long as one is open, the reply of an update call
\* (whose callback closes it) can still arrive on a served connection.
C23_ArchiveClosed ==
    tmpfiles > 0 => \E i \in Slots : upd[i] # {} /\ link[i] = "up"

\* C24: a slot that is disconnected (no handle) has an empty running set
C24_DisconnectedSlotIdle ==
    \A i \in Slots : agents[i] = None => running[i] = <<>>

\* C25: with no reconnection, _execute_job makes at most NumAgents + 1
\* attempts for a job, and when it is over the job has been dispatched on a
\* slot (call issued, line 179 done) or has got the crash result that says that
\* no agent is available.
C25_RetryTerminates ==
    \A j \in Jobs :
        /\ attempts[j] <= NumAgents + 1
        /\ jpc[j] \in {"done", "raised"} =>
              \/ NoAgentResult \in Range(reports[j])
              \/ jpc[j] = "done" /\ call[j] # "none"

====
